---- MODULE Spec2Model ----
(***************************************************************************)
(* A model of the record-cleaning passes and recipes of                    *)
(* src/data_cleaning.py (class DataCleaning).                              *)
(*                                                                         *)
(* A text value is a sequence of one-character strings; a cell is a        *)
(* record whose only field names its kind: [s |-> text] is a string,       *)
(* [i |-> n] an integer, [f |-> m, e |-> k] the float m / 10^k (a decimal  *)
(* with no trailing zero; binary rounding is not modelled), [d |-> date] a *)
(* calendar date, [null |-> TRUE] the missing-value                        *)
(* marker NaN / NaT / <NA>, [none |-> TRUE] Python's None in an object     *)
(* column.  A dataset is a record                                          *)
(*   [dtypes |-> [column -> name of the column's dtype],                   *)
(*    rows   |-> sequence of [index |-> row identifier,                    *)
(*                            cells |-> [column -> cell]]].                *)
(* Each pass is an operator from datasets to datasets; a pass that can     *)
(* raise returns [exc |-> name of the exception] instead.                  *)
(***************************************************************************)
EXTENDS Integers, Sequences, FiniteSets, TLC

VARIABLES pc, inp, df, arg, exc

vars == <<pc, inp, df, arg, exc>>

(***************************************************************************)
(* Text helpers: Python str methods on sequences of characters.            *)
(***************************************************************************)

\* s[i..i+Len(p)-1] = p
MatchAt(s, p, i) ==
    /\ i >= 1
    /\ i + Len(p) - 1 <= Len(s)
    /\ \A k \in 1..Len(p) : s[i + k - 1] = p[k]

\* p in s
Contains(s, p) == \E i \in 1..(Len(s) + 1) : MatchAt(s, p, i)

\* s.endswith(p)
EndsWith(s, p) == Len(p) <= Len(s) /\ MatchAt(s, p, Len(s) - Len(p) + 1)

\* s.find(p), 1-based; 0 when p does not occur
Find(s, p) ==
    IF Contains(s, p)
    THEN CHOOSE i \in 1..(Len(s) + 1) :
            MatchAt(s, p, i) /\ \A j \in 1..(i - 1) : ~MatchAt(s, p, j)
    ELSE 0

\* s.replace(old, new) for a non-empty old: one left-to-right scan that
\* replaces non-overlapping occurrences and never rescans what it wrote.
RECURSIVE StrReplace(_, _, _)
StrReplace(s, old, new) ==
    IF Len(s) = 0 THEN <<>>
    ELSE IF MatchAt(s, old, 1)
         THEN new \o StrReplace(SubSeq(s, Len(old) + 1, Len(s)), old, new)
         ELSE <<Head(s)>> \o StrReplace(Tail(s), old, new)

\* s.split(sep) for a non-empty sep: the list of parts
RECURSIVE StrSplit(_, _)
StrSplit(s, sep) ==
    LET k == Find(s, sep)
    IN  IF k = 0 THEN <<s>>
        ELSE <<SubSeq(s, 1, k - 1)>> \o StrSplit(SubSeq(s, k + Len(sep), Len(s)), sep)

Digits == {"0", "1", "2", "3", "4", "5", "6", "7", "8", "9"}

Letters == {"a", "b", "c", "d", "e", "f", "g", "h", "i", "j", "k", "l", "m",
            "n", "o", "p", "q", "r", "s", "t", "u", "v", "w", "x", "y", "z",
            "A", "B", "C", "D", "E", "F", "G", "H", "I", "J", "K", "L", "M",
            "N", "O", "P", "Q", "R", "S", "T", "U", "V", "W", "X", "Y", "Z"}

DigitVal(c) ==
    CASE c = "0" -> 0 [] c = "1" -> 1 [] c = "2" -> 2 [] c = "3" -> 3
      [] c = "4" -> 4 [] c = "5" -> 5 [] c = "6" -> 6 [] c = "7" -> 7
      [] c = "8" -> 8 [] c = "9" -> 9

\* the number a non-empty sequence of decimal digits denotes
RECURSIVE DecVal(_)
DecVal(s) ==
    IF Len(s) = 0 THEN 0
    ELSE 10 * DecVal(SubSeq(s, 1, Len(s) - 1)) + DigitVal(s[Len(s)])

AllDigits(s) == Len(s) > 0 /\ \A k \in 1..Len(s) : s[k] \in Digits

\* s.strip() of blanks
RECURSIVE StripBlanks(_)
StripBlanks(s) ==
    IF Len(s) = 0 THEN s
    ELSE IF Head(s) = " " THEN StripBlanks(Tail(s))
    ELSE IF s[Len(s)] = " " THEN StripBlanks(SubSeq(s, 1, Len(s) - 1))
    ELSE s

(***************************************************************************)
(* Cells and datasets.                                                     *)
(***************************************************************************)

Str(s) == [s |-> s]
IntCell(n) == [i |-> n]
\* the float m / 10^k, with the trailing zeros of its fraction dropped
RECURSIVE FloatCell(_, _)
FloatCell(m, k) ==
    IF k > 0 /\ m % 10 = 0 THEN FloatCell(m \div 10, k - 1) ELSE [f |-> m, e |-> k]
Null == [null |-> TRUE]
None == [none |-> TRUE]
IsStr(c) == DOMAIN c = {"s"}
IsInt(c) == DOMAIN c = {"i"}
IsFloat(c) == DOMAIN c = {"f", "e"}
IsNull(c) == DOMAIN c = {"null"}
IsNone(c) == DOMAIN c = {"none"}
\* pandas' isna()
IsNa(c) == IsNull(c) \/ IsNone(c)

Raised(e) == [exc |-> e]
IsRaised(r) == DOMAIN r = {"exc"}

Columns(d) == DOMAIN d.dtypes

\* df[col] = f(df[col]) cell by cell, the column's dtype becoming dtype
MapColumn(d, col, f(_), dtype) ==
    [dtypes |-> [d.dtypes EXCEPT ![col] = dtype],
     rows |-> [k \in 1..Len(d.rows) |->
                  [d.rows[k] EXCEPT !.cells[col] = f(@)]]]

\* df[keep], keep a predicate on rows
FilterRows(d, keep(_)) == [d EXCEPT !.rows = SelectSeq(d.rows, keep)]

Indexes(d) == {d.rows[k].index : k \in 1..Len(d.rows)}

\* the datasets of n rows, indexed 1..n, with the columns cols of dtype dtype
\* and every cell drawn from cells
Datasets(cols, dtype, cells, n) ==
    {[dtypes |-> [c \in cols |-> dtype],
      rows |-> [k \in 1..n |-> [index |-> k, cells |-> cs[k]]]] :
        cs \in [1..n -> [cols -> cells]]}

\* the texts of at most n characters over alphabet
TextsUpTo(alphabet, n) == UNION {[1..k -> alphabet] : k \in 0..n}

\* the cells of column col
ColumnCells(d, col) == {d.rows[k].cells[col] : k \in 1..Len(d.rows)}

(***************************************************************************)
(* remove_unique_column_duplicates                                         *)
(***************************************************************************)

\* df.drop_duplicates(subset=[column], keep='first'): the later copies go
DropDuplicatesKeepFirst(d, column) ==
    [d EXCEPT !.rows =
        LET first(k) == \A j \in 1..(k - 1) :
                            d.rows[j].cells[column] # d.rows[k].cells[column]
            keep[k \in 0..Len(d.rows)] ==
                IF k = 0 THEN <<>>
                ELSE keep[k - 1] \o (IF first(k) THEN <<d.rows[k]>> ELSE <<>>)
        IN  keep[Len(d.rows)]]

\* df.drop_duplicates(subset=[column], keep=False): every row whose value in
\* column occurs in another row goes
DropDuplicates(d, column) ==
    [d EXCEPT !.rows =
        LET alone(k) == \A j \in 1..Len(d.rows) :
                            j # k => d.rows[j].cells[column] # d.rows[k].cells[column]
            keep[k \in 0..Len(d.rows)] ==
                IF k = 0 THEN <<>>
                ELSE keep[k - 1] \o (IF alone(k) THEN <<d.rows[k]>> ELSE <<>>)
        IN  keep[Len(d.rows)]]

RECURSIVE RemoveUniqueColumnDuplicates(_, _)
RemoveUniqueColumnDuplicates(d, columns_with_unique_values) ==
    IF Len(columns_with_unique_values) = 0 THEN d
    ELSE RemoveUniqueColumnDuplicates(
            DropDuplicates(d, Head(columns_with_unique_values)),
            Tail(columns_with_unique_values))

(***************************************************************************)
(* remove_null_values                                                      *)
(***************************************************************************)

NULL == <<"N", "U", "L", "L">>

\* df[~df.isin(['NULL']).any(axis=1)]
\* a filter that looks for the sentinel in one column only
RemoveNullValuesInOneColumn(d) ==
    FilterRows(d, LAMBDA r : Columns(d) = {}
                             \/ r.cells[CHOOSE c \in Columns(d) : TRUE] # Str(NULL))

RemoveNullValues(d) ==
    FilterRows(d, LAMBDA r : ~\E c \in Columns(d) : r.cells[c] = Str(NULL))

(***************************************************************************)
(* The .str accessor: a string method applied cell by cell.  A cell that   *)
(* is not a string gives NaN; the result of a 'string' column is a         *)
(* 'string' column, of any other column an object column.                  *)
(***************************************************************************)

StrMethodDtype(dtype) == IF dtype = "string" THEN "string" ELSE "object"

\* Series.str needs a column that can hold strings
HasStrAccessor(d, col) == d.dtypes[col] \in {"object", "string", "category"}

(***************************************************************************)
(* clean_email_addresses                                                   *)
(***************************************************************************)

AtAt == <<"@", "@">>

At == <<"@">>

\* x.replace('@@', '@') of one value
ReplaceAtAt(s) == StrReplace(s, AtAt, At)

\* df['email_address'] = df['email_address'].str.replace('@@', '@')
CleanEmailAddresses(d) ==
    IF "email_address" \notin Columns(d) THEN Raised("KeyError")
    ELSE IF ~HasStrAccessor(d, "email_address") THEN Raised("AttributeError")
    ELSE MapColumn(d, "email_address",
                   LAMBDA c : IF IsStr(c) THEN Str(ReplaceAtAt(c.s)) ELSE Null,
                   StrMethodDtype(d.dtypes["email_address"]))

(***************************************************************************)
(* clean_country_data                                                      *)
(***************************************************************************)

GB == <<"G", "B">>
DE == <<"D", "E">>
US == <<"U", "S">>
GGB == <<"G", "G", "B">>

\* valid_country_code = ('GB', 'DE', 'US')
DefaultValidCountryCodes == {GB, DE, US}

\* .replace('GGB', 'GB'): a cell equal to 'GGB' becomes 'GB'
ReplaceGGB(c) == IF c = Str(GGB) THEN Str(GB) ELSE c

\* df.drop(labels): every row whose index label is one of labels goes
DropLabels(d, labels) == FilterRows(d, LAMBDA r : r.index \notin labels)

\* astype('category'), replace('GGB', 'GB'), then drop, by index label, the
\* rows whose code is not in valid_country_code (a missing code is in no list)
CleanCountryData(d, valid_country_code) ==
    IF "country_code" \notin Columns(d) THEN Raised("KeyError")
    ELSE LET fixed == MapColumn(d, "country_code",
                                LAMBDA c : ReplaceGGB(IF IsNone(c) THEN Null ELSE c),
                                "category")
             incorrect_codes ==
                FilterRows(fixed,
                    LAMBDA r : ~(/\ IsStr(r.cells["country_code"])
                                 /\ r.cells["country_code"].s \in valid_country_code))
         IN  DropLabels(fixed, Indexes(incorrect_codes))

(***************************************************************************)
(* convert_data_types                                                      *)
(***************************************************************************)

Pow10(k) == LET P[j \in 0..k] == IF j = 0 THEN 1 ELSE 10 * P[j - 1] IN P[k]

RECURSIVE NatText(_)
NatText(n) ==
    LET d == <<"0", "1", "2", "3", "4", "5", "6", "7", "8", "9">>[(n % 10) + 1]
    IN  IF n < 10 THEN <<d>> ELSE NatText(n \div 10) \o <<d>>

\* str(n) of an integer
IntText(n) == IF n < 0 THEN <<"-">> \o NatText(-n) ELSE NatText(n)

\* str(x) of the float m / 10^k: integer part, '.', at least one fraction
\* digit
FloatText(m, k) ==
    LET a == IF m < 0 THEN -m ELSE m
        frac == NatText(a % Pow10(k))
        pad == [j \in 1..(k - Len(frac)) |-> "0"]
    IN  (IF m < 0 THEN <<"-">> ELSE <<>>) \o NatText(a \div Pow10(k))
        \o <<".">> \o (IF k = 0 THEN <<"0">> ELSE pad \o frac)

\* int(x) of a float: the fraction is cut off
FloatTrunc(m, k) ==
    IF m < 0 THEN -((-m) \div Pow10(k)) ELSE m \div Pow10(k)

\* the sign of a numeric literal and the text after it
SignOf(s) == IF Len(s) > 0 /\ s[1] = "-" THEN -1 ELSE 1
Unsigned(s) == IF Len(s) > 0 /\ s[1] \in {"-", "+"} THEN Tail(s) ELSE s

\* int(x) of a text: blanks stripped, an optional sign, decimal digits
ParseInt(s) ==
    LET t == Unsigned(StripBlanks(s))
    IN  IF AllDigits(t) THEN IntCell(SignOf(StripBlanks(s)) * DecVal(t))
        ELSE Raised("ValueError")

IsNanText(t) ==
    /\ Len(t) = 3
    /\ t[1] \in {"n", "N"} /\ t[2] \in {"a", "A"} /\ t[3] \in {"n", "N"}

\* float(x) of a text: blanks stripped, an optional sign, then 'nan' or
\* digits with at most one '.', at least one digit in all
ParseFloat(s) ==
    LET t == Unsigned(StripBlanks(s))
        sign == SignOf(StripBlanks(s))
        parts == StrSplit(t, <<".">>)
        whole == parts[1]
        frac == IF Len(parts) = 2 THEN parts[2] ELSE <<>>
        digits(x) == \A k \in 1..Len(x) : x[k] \in Digits
    IN  IF IsNanText(t) THEN Null
        ELSE IF /\ Len(parts) <= 2
                /\ digits(whole) /\ digits(frac)
                /\ Len(whole) + Len(frac) > 0
             THEN FloatCell(sign * DecVal(whole \o frac), Len(frac))
             ELSE Raised("ValueError")

IntDtypes == {"int8", "int16", "int64"}

\* one cell under Series.astype(data_type): the cell it becomes, or the
\* exception the conversion raises
ConvertCell(c, data_type) ==
    CASE data_type = "string" ->
            IF IsStr(c) THEN c
            ELSE IF IsInt(c) THEN Str(IntText(c.i))
            ELSE IF IsFloat(c) THEN Str(FloatText(c.f, c.e))
            ELSE Null
      [] data_type = "category" -> IF IsNone(c) THEN Null ELSE c
      [] data_type = "float64" ->
            IF IsStr(c) THEN ParseFloat(c.s)
            ELSE IF IsInt(c) THEN FloatCell(c.i, 0)
            ELSE IF IsFloat(c) THEN c
            ELSE Null
      [] data_type \in IntDtypes ->
            IF IsStr(c) THEN ParseInt(c.s)
            ELSE IF IsInt(c) THEN c
            ELSE IF IsFloat(c) THEN IntCell(FloatTrunc(c.f, c.e))
            ELSE IF IsNone(c) THEN Raised("TypeError")
            ELSE Raised("ValueError")
      [] OTHER -> Raised("TypeError")

\* df[col].astype(data_type): the converted dataset, or the exception of the
\* first cell whose conversion raises
AsType(d, col, data_type) ==
    LET bad == {k \in 1..Len(d.rows) : IsRaised(ConvertCell(d.rows[k].cells[col], data_type))}
    IN  IF bad = {}
        THEN MapColumn(d, col, LAMBDA c : ConvertCell(c, data_type), data_type)
        ELSE ConvertCell(d.rows[CHOOSE k \in bad : \A j \in bad : k <= j].cells[col],
                         data_type)

\* one entry of the loop of convert_data_types: a ValueError of the
\* conversion is reported and the column left as it was, any other exception
\* leaves the function, an absent column is reported and skipped
ConvertEntry(d, col, data_type) ==
    IF col \in Columns(d)
    THEN LET r == AsType(d, col, data_type)
         IN  IF IsRaised(r) /\ r.exc = "ValueError" THEN d ELSE r
    ELSE d

\* convert_data_types(df, column_data_types); column_data_types is the list
\* of the dict's items, in the dict's order
RECURSIVE ConvertDataTypes(_, _)
ConvertDataTypes(d, column_data_types) ==
    IF Len(column_data_types) = 0 THEN d
    ELSE LET r == ConvertEntry(d, Head(column_data_types)[1], Head(column_data_types)[2])
         IN  IF IsRaised(r) THEN r
             ELSE ConvertDataTypes(r, Tail(column_data_types))

(***************************************************************************)
(* clean_phone_numbers                                                     *)
(***************************************************************************)

\* the number of columns of df['phone_number'].str.split('x', expand=True):
\* the largest number of parts of a row (a cell that is no string gives one
\* column of NaN); no column for a dataset with no rows
SplitWidth(d) ==
    LET parts(k) == IF IsStr(d.rows[k].cells["phone_number"])
                    THEN Len(StrSplit(d.rows[k].cells["phone_number"].s, <<"x">>))
                    ELSE 1
        W[k \in 0..Len(d.rows)] ==
            IF k = 0 THEN 0
            ELSE IF parts(k) > W[k - 1] THEN parts(k) ELSE W[k - 1]
    IN  W[Len(d.rows)]

\* df[['phone_number', 'phone_ext']] = the two columns of the split: a row
\* with no 'x' gets None (<NA> in a 'string' column) as its extension
AssignSplit(d) ==
    [dtypes |-> [c \in Columns(d) \cup {"phone_ext"} |->
                    IF c \in {"phone_number", "phone_ext"}
                    THEN StrMethodDtype(d.dtypes["phone_number"])
                    ELSE d.dtypes[c]],
     rows |-> [k \in 1..Len(d.rows) |->
        LET c == d.rows[k].cells["phone_number"]
            parts == IF IsStr(c) THEN StrSplit(c.s, <<"x">>) ELSE <<>>
            number == IF IsStr(c) THEN Str(parts[1]) ELSE Null
            ext == IF IsStr(c) /\ Len(parts) = 2 THEN Str(parts[2])
                   ELSE IF IsStr(c) /\ d.dtypes["phone_number"] # "string" THEN None
                   ELSE Null
        IN  [d.rows[k] EXCEPT !.cells =
                [col \in Columns(d) \cup {"phone_ext"} |->
                    IF col = "phone_number" THEN number
                    ELSE IF col = "phone_ext" THEN ext
                    ELSE d.rows[k].cells[col]]]]]

\* the try block: the assignment of the split to the two columns raises
\* ValueError ("Columns must be same length as key") unless the split has
\* exactly two columns; the ValueError is caught and the dataset left as is
SplitExtension(d) ==
    IF SplitWidth(d) = 2 THEN AssignSplit(d) ELSE d

\* re.sub('[^a-zA-Z0-9+]', '', x)
StripPhone(s) == SelectSeq(s, LAMBDA ch : ch \in Letters \cup Digits \cup {"+"})

\* x.replace('(0)', '') then the regex: what is left of a number
NormalizePhone(s) == StripPhone(StrReplace(s, <<"(", "0", ")">>, <<>>))

CleanPhoneNumbers(d) ==
    IF "phone_number" \notin Columns(d) THEN Raised("KeyError")
    ELSE IF ~HasStrAccessor(d, "phone_number") THEN Raised("AttributeError")
    ELSE MapColumn(SplitExtension(d), "phone_number",
                   LAMBDA c : IF IsStr(c) THEN Str(NormalizePhone(c.s)) ELSE Null,
                   StrMethodDtype(d.dtypes["phone_number"]))

(***************************************************************************)
(* convert_product_weights                                                 *)
(***************************************************************************)

\* x * y and x / 1000 of floats
FloatMul(x, y) == FloatCell(x.f * y.f, x.e + y.e)
FloatDiv1000(x) == FloatCell(x.f, x.e + 3)

\* 0.0283495
OzInKg == FloatCell(283495, 7)

\* f(float(a)) and f2(float(a), float(b)): float() raises ValueError on a
\* text that is no number, and arithmetic on nan gives nan
OnFloat(a, f(_)) ==
    LET x == ParseFloat(a)
    IN  IF IsRaised(x) \/ IsNull(x) THEN x ELSE f(x)

OnFloats(a, b, f2(_, _)) ==
    LET x == ParseFloat(a)
        y == ParseFloat(b)
    IN  IF IsRaised(x) THEN x
        ELSE IF IsRaised(y) THEN y
        ELSE IF IsNull(x) \/ IsNull(y) THEN Null
        ELSE f2(x, y)

\* convert_product_weights(weight_str) of the text str(weight_str): the
\* float of the weight in kilograms, the text itself, or the exception raised
ConvertProductWeights(weight_str) ==
    IF Contains(weight_str, <<"x">>)
    THEN LET factors == StrSplit(StrReplace(weight_str, <<"g">>, <<>>), <<" ", "x", " ">>)
         IN  IF IsRaised(ParseFloat(factors[1])) THEN ParseFloat(factors[1])
             ELSE IF Len(factors) < 2 THEN Raised("IndexError")
             ELSE OnFloats(factors[1], factors[2],
                           LAMBDA x, y : FloatDiv1000(FloatMul(x, y)))
    ELSE IF EndsWith(weight_str, <<".">>)
    THEN OnFloat(StrReplace(weight_str, <<"g", " ", ".">>, <<>>), FloatDiv1000)
    ELSE IF EndsWith(weight_str, <<"k", "g">>)
    THEN OnFloat(StrReplace(weight_str, <<"k", "g">>, <<>>), LAMBDA x : x)
    ELSE IF EndsWith(weight_str, <<"g">>)
    THEN OnFloat(StrReplace(weight_str, <<"g">>, <<>>), FloatDiv1000)
    ELSE IF EndsWith(weight_str, <<"m", "l">>)
    THEN OnFloat(StrReplace(weight_str, <<"m", "l">>, <<>>), FloatDiv1000)
    ELSE IF EndsWith(weight_str, <<"o", "z">>)
    THEN OnFloat(StrReplace(weight_str, <<"o", "z">>, <<>>),
                 LAMBDA x : FloatMul(x, OzInKg))
    ELSE Str(weight_str)

(***************************************************************************)
(* Dates.  A date cell is [d |-> <<year, month, day>>].                    *)
(***************************************************************************)

MonthNames ==
    <<<<"J", "a", "n", "u", "a", "r", "y">>,
      <<"F", "e", "b", "r", "u", "a", "r", "y">>,
      <<"M", "a", "r", "c", "h">>,
      <<"A", "p", "r", "i", "l">>,
      <<"M", "a", "y">>,
      <<"J", "u", "n", "e">>,
      <<"J", "u", "l", "y">>,
      <<"A", "u", "g", "u", "s", "t">>,
      <<"S", "e", "p", "t", "e", "m", "b", "e", "r">>,
      <<"O", "c", "t", "o", "b", "e", "r">>,
      <<"N", "o", "v", "e", "m", "b", "e", "r">>,
      <<"D", "e", "c", "e", "m", "b", "e", "r">>>>

DaysInMonth(y, m) ==
    IF m = 2 THEN (IF (y % 4 = 0 /\ y % 100 # 0) \/ y % 400 = 0 THEN 29 ELSE 28)
    ELSE IF m \in {4, 6, 9, 11} THEN 30 ELSE 31

DateCell(y, m, d) == [d |-> <<y, m, d>>]
IsDate(c) == DOMAIN c = {"d"}

\* the date of year, month and day, or the ValueError of a day or month out
\* of range
MakeDate(y, m, d) ==
    IF m \in 1..12 /\ d >= 1 /\ d <= DaysInMonth(y, m) THEN DateCell(y, m, d)
    ELSE Raised("ValueError")

\* a field of one or two digits (%m, %d) and a field of four digits (%Y)
IsShortField(t) == AllDigits(t) /\ Len(t) <= 2
IsYearField(t) == AllDigits(t) /\ Len(t) = 4

\* the number of the month a text names (%B), 0 when it names none
MonthNumber(t) ==
    IF \E m \in 1..12 : MonthNames[m] = t
    THEN CHOOSE m \in 1..12 : MonthNames[m] = t ELSE 0

DateFormats == <<"%Y-%m-%d", "%Y %B %d", "%B %Y %d">>

\* one text parsed with one format: the date, or ValueError
ParseWithFormat(s, format) ==
    LET p == StrSplit(s, IF format = "%Y-%m-%d" THEN <<"-">> ELSE <<" ">>)
    IN  IF Len(p) # 3 THEN Raised("ValueError")
        ELSE IF format = "%Y-%m-%d"
             THEN IF IsYearField(p[1]) /\ IsShortField(p[2]) /\ IsShortField(p[3])
                  THEN MakeDate(DecVal(p[1]), DecVal(p[2]), DecVal(p[3]))
                  ELSE Raised("ValueError")
        ELSE IF format = "%Y %B %d"
             THEN IF IsYearField(p[1]) /\ MonthNumber(p[2]) # 0 /\ IsShortField(p[3])
                  THEN MakeDate(DecVal(p[1]), MonthNumber(p[2]), DecVal(p[3]))
                  ELSE Raised("ValueError")
        ELSE IF IsYearField(p[2]) /\ MonthNumber(p[1]) # 0 /\ IsShortField(p[3])
             THEN MakeDate(DecVal(p[2]), MonthNumber(p[1]), DecVal(p[3]))
             ELSE Raised("ValueError")

\* the format pandas guesses from one text: the first of DateFormats that
\* parses it, "" when none does
GuessFormat(s) ==
    IF \E n \in 1..3 : ~IsRaised(ParseWithFormat(s, DateFormats[n]))
    THEN DateFormats[CHOOSE n \in 1..3 :
            /\ ~IsRaised(ParseWithFormat(s, DateFormats[n]))
            /\ \A j \in 1..(n - 1) : IsRaised(ParseWithFormat(s, DateFormats[j]))]
    ELSE ""

\* dateutil.parser.parse of one value: the date of a text in a form it
\* knows, ParserError for any other text, TypeError for what is no text
DateutilParse(c) ==
    IF ~IsStr(c) THEN Raised("TypeError")
    ELSE IF GuessFormat(c.s) = "" THEN Raised("ParserError")
    ELSE ParseWithFormat(c.s, GuessFormat(c.s))

\* df[col].apply(parse).dt.date: parse raises on the first cell it cannot
\* parse; the .dt accessor raises AttributeError on the object column that
\* apply gives for a dataset with no rows
ApplyParseDate(d, col) ==
    LET bad == {k \in 1..Len(d.rows) : IsRaised(DateutilParse(d.rows[k].cells[col]))}
    IN  IF col \notin Columns(d) THEN Raised("KeyError")
        ELSE IF bad # {}
        THEN DateutilParse(d.rows[CHOOSE k \in bad : \A j \in bad : k <= j].cells[col])
        ELSE IF Len(d.rows) = 0 THEN Raised("AttributeError")
        ELSE MapColumn(d, col, DateutilParse, "object")

(***************************************************************************)
(* convert_dates                                                           *)
(***************************************************************************)

\* pd.to_datetime(df[col], format=format, errors='ignore'): the column
\* parsed when every cell that is not missing parses, else the column as is
ToDatetimeIgnore(d, col, format) ==
    LET ok(c) == IsNa(c) \/ IsDate(c) \/ (IsStr(c) /\ ~IsRaised(ParseWithFormat(c.s, format)))
    IN  IF d.dtypes[col] = "datetime64" \/ \E c \in ColumnCells(d, col) : ~ok(c)
        THEN d
        ELSE MapColumn(d, col,
                LAMBDA c : IF IsStr(c) THEN ParseWithFormat(c.s, format)
                           ELSE IF IsNa(c) THEN Null ELSE c,
                "datetime64")

\* pd.to_datetime(df[col], errors='coerce').dt.date: a column of texts is
\* parsed with the format guessed from its first text (every text that does
\* not follow it becomes NaT), or text by text when no format can be guessed
ToDatetimeCoerce(d, col) ==
    LET texts == SelectSeq(d.rows, LAMBDA r : IsStr(r.cells[col]))
        format == IF Len(texts) = 0 THEN "" ELSE GuessFormat(texts[1].cells[col].s)
        one(c) == IF IsDate(c) THEN c
                  ELSE IF ~IsStr(c) THEN Null
                  ELSE LET r == IF format = "" THEN DateutilParse(c)
                                ELSE ParseWithFormat(c.s, format)
                       IN  IF IsRaised(r) THEN Null ELSE r
    IN  MapColumn(d, col, one, "object")

RECURSIVE ConvertDates(_, _)
ConvertDates(d, date_columns) ==
    IF Len(date_columns) = 0 THEN d
    ELSE LET col == Head(date_columns)
         IN  IF col \notin Columns(d) THEN Raised("KeyError")
             ELSE ConvertDates(
                    ToDatetimeCoerce(
                      ToDatetimeIgnore(
                        ToDatetimeIgnore(
                          ToDatetimeIgnore(d, col, "%Y-%m-%d"),
                          col, "%Y %B %d"),
                        col, "%B %Y %d"),
                      col),
                    Tail(date_columns))

(***************************************************************************)
(* clean_addresses                                                         *)
(***************************************************************************)

LowerCase == <<"a", "b", "c", "d", "e", "f", "g", "h", "i", "j", "k", "l", "m",
               "n", "o", "p", "q", "r", "s", "t", "u", "v", "w", "x", "y", "z">>

UpperCase == <<"A", "B", "C", "D", "E", "F", "G", "H", "I", "J", "K", "L", "M",
               "N", "O", "P", "Q", "R", "S", "T", "U", "V", "W", "X", "Y", "Z">>

ToUpper(ch) ==
    IF \E n \in 1..26 : LowerCase[n] = ch
    THEN UpperCase[CHOOSE n \in 1..26 : LowerCase[n] = ch] ELSE ch

ToLower(ch) ==
    IF \E n \in 1..26 : UpperCase[n] = ch
    THEN LowerCase[CHOOSE n \in 1..26 : UpperCase[n] = ch] ELSE ch

\* x.upper()
Upper(s) == [k \in 1..Len(s) |-> ToUpper(s[k])]

\* x.title(): a letter that follows no letter is upper-cased, every other
\* letter lower-cased
Title(s) ==
    [k \in 1..Len(s) |->
        IF k > 1 /\ s[k - 1] \in Letters THEN ToLower(s[k]) ELSE ToUpper(s[k])]

Whitespace == {" ", "\n", "\t"}

\* x.split(): the maximal runs of characters that are not whitespace
RECURSIVE Words(_)
Words(s) ==
    IF Len(s) = 0 THEN <<>>
    ELSE IF Head(s) \in Whitespace THEN Words(Tail(s))
    ELSE LET Run[k \in 0..Len(s)] ==
                 IF k < Len(s) /\ s[k + 1] \notin Whitespace THEN Run[k + 1] ELSE k
             n == Run[0]
         IN  <<SubSeq(s, 1, n)>> \o Words(SubSeq(s, n + 1, Len(s)))

\* ' '.join(words)
RECURSIVE Join(_)
Join(words) ==
    IF Len(words) = 0 THEN <<>>
    ELSE IF Len(words) = 1 THEN words[1]
    ELSE words[1] \o <<" ">> \o Join(Tail(words))

\* ' '.join(x[:-2] + [word.upper() for word in x[-2:]])
UpperLastTwo(words) ==
    Join([k \in 1..Len(words) |->
            IF k > Len(words) - 2 THEN Upper(words[k]) ELSE words[k]])

\* one address: newlines to blanks, title case, the last two words in
\* upper case
CleanAddress(s) == UpperLastTwo(Words(Title(StrReplace(s, <<"\n">>, <<" ">>))))

\* the lambda subscripts x: a cell that is no text raises TypeError
CleanAddresses(d) ==
    IF "address" \notin Columns(d) THEN Raised("KeyError")
    ELSE IF ~HasStrAccessor(d, "address") THEN Raised("AttributeError")
    ELSE IF \E c \in ColumnCells(d, "address") : ~IsStr(c) THEN Raised("TypeError")
    ELSE MapColumn(d, "address", LAMBDA c : Str(CleanAddress(c.s)), "object")

\* the three statements of clean_addresses, each on the whole column
\* df['address'].str.title()
TitleColumn(d) ==
    IF "address" \notin Columns(d) THEN Raised("KeyError")
    ELSE IF ~HasStrAccessor(d, "address") THEN Raised("AttributeError")
    ELSE MapColumn(d, "address",
                   LAMBDA c : IF IsStr(c) THEN Str(Title(c.s)) ELSE Null,
                   StrMethodDtype(d.dtypes["address"]))

\* df['address'].str.split().apply(lambda x: ' '.join(x[:-2] + [word.upper()
\* for word in x[-2:]])): the lambda subscripts x, which is no list for a
\* cell that is no text
UpperLastTwoColumn(d) ==
    IF "address" \notin Columns(d) THEN Raised("KeyError")
    ELSE IF ~HasStrAccessor(d, "address") THEN Raised("AttributeError")
    ELSE IF \E c \in ColumnCells(d, "address") : ~IsStr(c) THEN Raised("TypeError")
    ELSE MapColumn(d, "address", LAMBDA c : Str(UpperLastTwo(Words(c.s))), "object")

(***************************************************************************)
(* Steps of the cards and stores recipes                                   *)
(***************************************************************************)

\* df[col] = df[col].str.replace(old, new), old a literal text
StrReplaceColumn(d, col, old, new) ==
    IF col \notin Columns(d) THEN Raised("KeyError")
    ELSE IF ~HasStrAccessor(d, col) THEN Raised("AttributeError")
    ELSE MapColumn(d, col,
                   LAMBDA c : IF IsStr(c) THEN Str(StrReplace(c.s, old, new)) ELSE Null,
                   StrMethodDtype(d.dtypes[col]))

\* df.drop_duplicates(keep=False): every row equal in all its columns to
\* another row goes
DropFullDuplicates(d) ==
    [d EXCEPT !.rows =
        LET alone(k) == \A j \in 1..Len(d.rows) :
                            j # k => d.rows[j].cells # d.rows[k].cells
            keep[k \in 0..Len(d.rows)] ==
                IF k = 0 THEN <<>>
                ELSE keep[k - 1] \o (IF alone(k) THEN <<d.rows[k]>> ELSE <<>>)
        IN  keep[Len(d.rows)]]

\* df[~df['card_number'].str.contains('[a-zA-Z?]', na=False)]
DropLetterCards(d) ==
    IF "card_number" \notin Columns(d) THEN Raised("KeyError")
    ELSE IF ~HasStrAccessor(d, "card_number") THEN Raised("AttributeError")
    ELSE FilterRows(d,
            LAMBDA r : ~(/\ IsStr(r.cells["card_number"])
                         /\ \E k \in 1..Len(r.cells["card_number"].s) :
                               r.cells["card_number"].s[k] \in Letters \cup {"?"}))

\* df.dropna()
DropNa(d) == FilterRows(d, LAMBDA r : \A c \in Columns(d) : ~IsNa(r.cells[c]))

\* df['card_number'] = df['card_number'].astype('int64'), outside any try
CardNumberToInt(d) ==
    IF "card_number" \notin Columns(d) THEN Raised("KeyError")
    ELSE AsType(d, "card_number", "int64")

\* df.drop(columns=[col])
DropColumn(d, col) ==
    IF col \notin Columns(d) THEN Raised("KeyError")
    ELSE [dtypes |-> [c \in Columns(d) \ {col} |-> d.dtypes[c]],
          rows |-> [k \in 1..Len(d.rows) |->
                      [d.rows[k] EXCEPT !.cells =
                          [c \in Columns(d) \ {col} |-> d.rows[k].cells[c]]]]]

\* df['staff_numbers'].replace('[a-zA-Z]', '', regex=True): the letters of
\* every text go, a cell that is no text stays
StripStaffLetters(d) ==
    IF "staff_numbers" \notin Columns(d) THEN Raised("KeyError")
    ELSE MapColumn(d, "staff_numbers",
            LAMBDA c : IF IsStr(c) THEN Str(SelectSeq(c.s, LAMBDA ch : ch \notin Letters))
                       ELSE c,
            d.dtypes["staff_numbers"])

\* column_data_types of clean_store_data
StoreColumnDataTypes ==
    << <<"longitude", "float64">>, <<"latitude", "float64">>, <<"staff_numbers", "int16">> >>

NA == <<"N", "/", "A">>

NaN == <<"N", "a", "N">>

(***************************************************************************)
(* Steps of the products recipe                                            *)
(***************************************************************************)

\* df.rename(columns={old: new}): a column that is absent is passed over
RenameColumn(d, old, new) ==
    IF old \notin Columns(d) THEN d
    ELSE LET from(c) == IF c = new THEN old ELSE c
             columns == (Columns(d) \ {old}) \cup {new}
         IN  [dtypes |-> [c \in columns |-> d.dtypes[from(c)]],
              rows |-> [k \in 1..Len(d.rows) |->
                          [d.rows[k] EXCEPT !.cells =
                              [c \in columns |-> d.rows[k].cells[from(c)]]]]]

StillAvailable ==
    <<"S", "t", "i", "l", "l", "_", "a", "v", "a", "i", "l", "a", "b", "l", "e">>

StillAvaliable ==
    <<"S", "t", "i", "l", "l", "_", "a", "v", "a", "l", "i", "a", "b", "l", "e">>

Removed == <<"R", "e", "m", "o", "v", "e", "d">>

valid_removed == {StillAvailable, Removed}

\* df['removed'].apply(correct_spelling)
CorrectSpelling(d) ==
    IF "removed" \notin Columns(d) THEN Raised("KeyError")
    ELSE MapColumn(d, "removed",
                   LAMBDA x : IF x = Str(StillAvaliable) THEN Str(StillAvailable) ELSE x,
                   d.dtypes["removed"])

\* df.drop(df[~df['removed'].isin(valid_removed)].index, inplace=True)
DropInvalidRemoved(d) ==
    DropLabels(d, Indexes(FilterRows(d,
        LAMBDA r : ~(IsStr(r.cells["removed"]) /\ r.cells["removed"].s \in valid_removed))))

\* the two characters U+00C2 U+00A3 the source strips from the prices, each
\* written here as one symbol
PoundSign == <<"A^", "L-">>

\* str(weight_str) of a cell
PyStr(c) ==
    IF IsStr(c) THEN c.s
    ELSE IF IsNone(c) THEN <<"N", "o", "n", "e">>
    ELSE IF IsNull(c) THEN <<"n", "a", "n">>
    ELSE IF IsInt(c) THEN IntText(c.i)
    ELSE FloatText(c.f, c.e)

\* df['weight'].apply(DataCleaning.convert_product_weights): the exception
\* of the first weight that raises aborts it
ApplyConvertProductWeights(d) ==
    LET out(c) == ConvertProductWeights(PyStr(c))
        bad == {k \in 1..Len(d.rows) : IsRaised(out(d.rows[k].cells["weight"]))}
    IN  IF "weight" \notin Columns(d) THEN Raised("KeyError")
        ELSE IF bad # {}
        THEN out(d.rows[CHOOSE k \in bad : \A j \in bad : k <= j].cells["weight"])
        ELSE MapColumn(d, "weight", out, "object")

ProductColumnDataTypes ==
    << <<"product_price", "float64">>, <<"weight_in_kg", "float64">> >>

\* round(x, 2), ties to the even digit
Round2(x) ==
    IF ~IsFloat(x) \/ x.e <= 2 THEN x
    ELSE LET p == Pow10(x.e - 2)
             a == IF x.f < 0 THEN -x.f ELSE x.f
             q == a \div p
             r == a % p
             up == 2 * r > p \/ (2 * r = p /\ q % 2 = 1)
             m == IF up THEN q + 1 ELSE q
         IN  FloatCell(IF x.f < 0 THEN -m ELSE m, 2)

\* df['product_price'].round(2): TypeError on a column that is not numeric
RoundPrice(d) ==
    IF "product_price" \notin Columns(d) THEN Raised("KeyError")
    ELSE IF d.dtypes["product_price"] # "float64" THEN Raised("TypeError")
    ELSE MapColumn(d, "product_price", Round2, "float64")

(***************************************************************************)
(* Specification SpecDedup: remove_unique_column_duplicates on every       *)
(* dataset of at most MaxDedupRows rows; one action per loop iteration.    *)
(* arg.columns is columns_with_unique_values, arg.done the number of       *)
(* columns the loop has processed.                                         *)
(***************************************************************************)

MaxDedupRows == 3

DedupColumns == {"email_address", "phone_number", "user_uuid"}

DedupValues == {Str(<<"a">>), Str(<<"b">>)}

\* the lists of unique columns tried: every list of at most two columns
UniqueColumnLists ==
    {<<>>} \cup {<<c>> : c \in DedupColumns}
           \cup {<<c1, c2>> : c1 \in DedupColumns, c2 \in DedupColumns}

InitDedup ==
    /\ pc = "dedup"
    /\ \E n \in 0..MaxDedupRows :
          inp \in Datasets(DedupColumns, "object", DedupValues, n)
    /\ df = inp
    /\ \E cols \in UniqueColumnLists : arg = [columns |-> cols, done |-> 0]
    /\ exc = "none"

\* for column in columns_with_unique_values: df = df.drop_duplicates(...)
DedupStep ==
    /\ pc = "dedup"
    /\ arg.done < Len(arg.columns)
    /\ df' = DropDuplicates(df, arg.columns[arg.done + 1])
    /\ arg' = [arg EXCEPT !.done = @ + 1]
    /\ UNCHANGED <<pc, inp, exc>>

\* return df
DedupReturn ==
    /\ pc = "dedup"
    /\ arg.done = Len(arg.columns)
    /\ pc' = "done"
    /\ UNCHANGED <<inp, df, arg, exc>>

NextDedup == DedupStep \/ DedupReturn

SpecDedup == InitDedup /\ [][NextDedup]_vars

\* the cell of the input row with identifier i in column c
InpCell(i, c) == (CHOOSE r \in {inp.rows[k] : k \in 1..Len(inp.rows)} : r.index = i).cells[c]

\* the identifiers of the rows still present once the first k columns of cols
\* have been processed: at each column, the rows present before it whose
\* value in it no other row present before it shares
PresentAfter(cols, k) ==
    LET P[j \in 0..k] ==
            IF j = 0 THEN Indexes(inp)
            ELSE {i \in P[j - 1] :
                    \A i2 \in P[j - 1] \ {i} : InpCell(i2, cols[j]) # InpCell(i, cols[j])}
    IN  P[k]

\* C1: remove_unique_column_duplicates processes the columns one after
\* another; after each column the rows left are exactly the rows present
\* before it whose value in that column no other such row shares (all copies
\* of a duplicate go), unchanged and in their input order; and the returned
\* dataset holds no value twice in any of the named columns.
C1_SequentialDedup ==
    pc \in {"dedup", "done"} =>
        /\ df.rows = SelectSeq(inp.rows,
                        LAMBDA r : r.index \in PresentAfter(arg.columns, arg.done))
        /\ pc = "done" =>
            /\ df = RemoveUniqueColumnDuplicates(inp, arg.columns)
            /\ \A n \in 1..Len(arg.columns) : \A k1, k2 \in 1..Len(df.rows) :
                  k1 # k2 => df.rows[k1].cells[arg.columns[n]]
                                # df.rows[k2].cells[arg.columns[n]]

\* C1 witness: a returned row shares its value in the second column with an
\* input row that the first column had already removed, and so survives.
C1_Witness ==
    /\ pc = "done"
    /\ Len(arg.columns) = 2
    /\ \E k \in 1..Len(df.rows) : \E q \in Indexes(inp) \ {df.rows[k].index} :
          /\ q \notin PresentAfter(arg.columns, 1)
          /\ InpCell(q, arg.columns[2]) = df.rows[k].cells[arg.columns[2]]

(***************************************************************************)
(* Specification SpecEmail: clean_email_addresses on every dataset of at   *)
(* most MaxEmailRows rows whose addresses are texts of at most MaxEmailLen *)
(* characters over EmailAlphabet.                                          *)
(***************************************************************************)

MaxEmailRows == 2

MaxEmailLen == 4

EmailAlphabet == {"a", "@"}

EmailCells == {Str(t) : t \in TextsUpTo(EmailAlphabet, MaxEmailLen)}

EmailDatasets ==
    UNION {Datasets({"email_address"}, "object", EmailCells, n) :
              n \in 0..MaxEmailRows}

\* the state after a pass returned r: its dataset, or the exception it raised
Returns(r, next) ==
    IF IsRaised(r)
    THEN pc' = "raised" /\ exc' = r.exc /\ df' = df
    ELSE pc' = next /\ exc' = exc /\ df' = r

InitEmail ==
    /\ pc = "email"
    /\ inp \in EmailDatasets
    /\ df = inp
    /\ arg = <<>>
    /\ exc = "none"

CleanEmail ==
    /\ pc = "email"
    /\ Returns(CleanEmailAddresses(df), "done")
    /\ UNCHANGED <<inp, arg>>

NextEmail == CleanEmail

SpecEmail == InitEmail /\ [][NextEmail]_vars

\* C3: after clean_email_addresses no email_address holds the sequence
\* '@@', whatever the input text was (runs of three or more '@' included).
C3_NoDoubleAt ==
    pc = "done" =>
        \A k \in 1..Len(df.rows) :
            /\ IsStr(df.rows[k].cells["email_address"])
            /\ ~Contains(df.rows[k].cells["email_address"].s, AtAt)

(***************************************************************************)
(* Specification SpecTypes: convert_data_types on every dataset of at most *)
(* MaxTypeRows rows with the columns month and day, under every map of at  *)
(* most two entries over the columns month, day and year (year is absent   *)
(* from the dataset); one action per entry of the map.  arg.map is         *)
(* column_data_types, arg.done the number of entries processed.            *)
(***************************************************************************)

MaxTypeRows == 2

TypeColumns == {"month", "day"}

TypeMapColumns == {"month", "day", "year"}

TypeNames == {"int8", "float64", "string"}

\* '7' converts to every type, '1.5' to no integer type (ValueError), None
\* to no integer type (TypeError)
TypeCells == {Str(<<"7">>), Str(<<"1", ".", "5">>), None}

TypeMaps ==
    {<<>>} \cup {<<<<c, t>>>> : c \in TypeMapColumns, t \in TypeNames}
           \cup {<<<<c1, t1>>, <<c2, t2>>>> :
                    <<c1, t1, c2, t2>> \in
                        {x \in TypeMapColumns \X TypeNames \X TypeMapColumns \X TypeNames :
                            x[1] # x[3]}}

InitTypes ==
    /\ pc = "types"
    /\ \E n \in 0..MaxTypeRows : inp \in Datasets(TypeColumns, "object", TypeCells, n)
    /\ df = inp
    /\ \E m \in TypeMaps : arg = [map |-> m, done |-> 0]
    /\ exc = "none"

\* one iteration of `for col, data_type in column_data_types.items()`
ConvertStep ==
    /\ pc = "types"
    /\ arg.done < Len(arg.map)
    /\ Returns(ConvertEntry(df, arg.map[arg.done + 1][1], arg.map[arg.done + 1][2]),
               "types")
    /\ arg' = [arg EXCEPT !.done = @ + 1]
    /\ UNCHANGED inp

\* return df
ConvertReturn ==
    /\ pc = "types"
    /\ arg.done = Len(arg.map)
    /\ pc' = "done"
    /\ UNCHANGED <<inp, df, arg, exc>>

NextTypes == ConvertStep \/ ConvertReturn

SpecTypes == InitTypes /\ [][NextTypes]_vars

\* column col of dataset a is column col of dataset b: dtype and cells
SameColumn(a, b, col) ==
    /\ a.dtypes[col] = b.dtypes[col]
    /\ Len(a.rows) = Len(b.rows)
    /\ \A k \in 1..Len(a.rows) : a.rows[k].cells[col] = b.rows[k].cells[col]

\* C10: convert_data_types isolates failures per column: whatever makes a
\* conversion fail, the pass does not raise; it returns a dataset in which
\* every declared column that can be converted is converted, every declared
\* column whose conversion fails keeps its original values, and a declared
\* column that is absent is skipped.
C10_PerColumnIsolation ==
    /\ pc # "raised"
    /\ pc = "done" =>
        /\ Columns(df) = Columns(inp)
        /\ \A n \in 1..Len(arg.map) :
            LET col == arg.map[n][1]
                data_type == arg.map[n][2]
            IN  col \in Columns(inp) =>
                    IF IsRaised(AsType(inp, col, data_type))
                    THEN SameColumn(df, inp, col)
                    ELSE SameColumn(df, AsType(inp, col, data_type), col)

(***************************************************************************)
(* Specification SpecTwice: the country validator, the email cleaner and   *)
(* the type coercion pass, each applied to an input and then to its own    *)
(* output.  arg.pass names the pass, arg.param its parameter (the valid    *)
(* codes, the type map), arg.first the output of the first application.    *)
(***************************************************************************)

MaxCountryRows == 2

FR == <<"F", "R">>

CountryCells == {Str(GB), Str(GGB), Str(FR), None}

CountryCodeLists == {DefaultValidCountryCodes, {GGB, DE}}

InitTwice ==
    /\ pc = "first"
    /\ exc = "none"
    /\ \/ /\ \E n \in 0..MaxCountryRows :
                inp \in Datasets({"country_code"}, "object", CountryCells, n)
          /\ \E v \in CountryCodeLists :
                arg = [pass |-> "country", param |-> v, first |-> <<>>]
       \/ /\ inp \in EmailDatasets
          /\ arg = [pass |-> "email", param |-> <<>>, first |-> <<>>]
       \/ /\ \E n \in 0..MaxTypeRows :
                inp \in Datasets(TypeColumns, "object", TypeCells, n)
          /\ \E m \in TypeMaps : arg = [pass |-> "types", param |-> m, first |-> <<>>]
    /\ df = inp

\* the state after one application returned r
Applied(r) ==
    /\ Returns(r, IF pc = "first" THEN "second" ELSE "done")
    /\ arg' = IF pc = "first" /\ ~IsRaised(r) THEN [arg EXCEPT !.first = r] ELSE arg
    /\ UNCHANGED inp

TwiceCountry ==
    /\ pc \in {"first", "second"}
    /\ arg.pass = "country"
    /\ Applied(CleanCountryData(df, arg.param))

TwiceEmail ==
    /\ pc \in {"first", "second"}
    /\ arg.pass = "email"
    /\ Applied(CleanEmailAddresses(df))

TwiceTypes ==
    /\ pc \in {"first", "second"}
    /\ arg.pass = "types"
    /\ Applied(ConvertDataTypes(df, arg.param))

NextTwice == TwiceCountry \/ TwiceEmail \/ TwiceTypes

SpecTwice == InitTwice /\ [][NextTwice]_vars

\* C4: idempotence of clean_country_data, clean_email_addresses and
\* convert_data_types: a second application to the pass's own output
\* returns exactly that output (no row dropped, no value changed).
C4_Idempotent == pc = "done" => df = arg.first

(***************************************************************************)
(* Specification SpecPhones: clean_phone_numbers on every dataset of at    *)
(* most MaxPhoneRows rows whose numbers are made of at most MaxPhoneTokens *)
(* of the pieces PhoneTokens.                                              *)
(***************************************************************************)

MaxPhoneRows == 2

MaxPhoneTokens == 3

PhoneTokens == {<<"+", "4">>, <<"(", "0", ")">>, <<" ", "1">>, <<"x">>, <<"9">>}

\* the concatenation of a sequence of texts
RECURSIVE Concat(_)
Concat(ts) == IF Len(ts) = 0 THEN <<>> ELSE Head(ts) \o Concat(Tail(ts))

\* the texts made of at most n pieces of tokens
TokenTexts(tokens, n) == {Concat(ts) : ts \in UNION {[1..k -> tokens] : k \in 0..n}}

PhoneCells == {Str(t) : t \in TokenTexts(PhoneTokens, MaxPhoneTokens)}

InitPhones ==
    /\ pc = "phones"
    /\ \E n \in 0..MaxPhoneRows :
          inp \in Datasets({"phone_number"}, "object", PhoneCells, n)
    /\ df = inp
    /\ arg = <<>>
    /\ exc = "none"

CleanPhones ==
    /\ pc = "phones"
    /\ Returns(CleanPhoneNumbers(df), "done")
    /\ UNCHANGED <<inp, arg>>

NextPhones == CleanPhones

SpecPhones == InitPhones /\ [][NextPhones]_vars

\* C9: clean_phone_numbers never raises, and in every row phone_number is
\* the input up to its first 'x' with '(0)' removed and everything but
\* letters, digits and '+' stripped, and phone_ext (for a row with an 'x')
\* is the input after that first 'x'; whatever the other rows hold.
C9_PhoneSplit ==
    /\ pc # "raised"
    /\ pc = "done" =>
        \A k \in 1..Len(inp.rows) :
            LET s == inp.rows[k].cells["phone_number"].s
                i == Find(s, <<"x">>)
                before == IF i = 0 THEN s ELSE SubSeq(s, 1, i - 1)
                after == SubSeq(s, i + 1, Len(s))
            IN  /\ df.rows[k].cells["phone_number"] = Str(NormalizePhone(before))
                /\ i # 0 => /\ "phone_ext" \in Columns(df)
                            /\ df.rows[k].cells["phone_ext"] = Str(after)

(***************************************************************************)
(* Specification SpecWeights: convert_product_weights on every text made   *)
(* of at most MaxWeightTokens of the pieces WeightTokens.  inp is the      *)
(* text, df the value returned.                                            *)
(***************************************************************************)

MaxWeightTokens == 4

WeightTokens == {<<"2">>, <<"5">>, <<"g">>, <<"k", "g">>, <<" ", "x", " ">>,
                 <<"x">>, <<".">>, <<"m", "l">>, <<"o", "z">>, <<"b">>, <<" ">>}

InitWeights ==
    /\ pc = "weight"
    /\ inp \in TokenTexts(WeightTokens, MaxWeightTokens)
    /\ df = Str(inp)
    /\ arg = <<>>
    /\ exc = "none"

ConvertWeight ==
    /\ pc = "weight"
    /\ Returns(ConvertProductWeights(inp), "done")
    /\ UNCHANGED <<inp, arg>>

NextWeights == ConvertWeight

SpecWeights == InitWeights /\ [][NextWeights]_vars

\* the text is a number float() accepts
IsNumber(t) == IsFloat(ParseFloat(t))

\* the seven rules of the weight normalizer, first match winning; a text
\* that is a well-formed instance of none of the first six is returned as is
SevenRules(s) ==
    LET factors == StrSplit(StrReplace(s, <<"g">>, <<>>), <<" ", "x", " ">>)
        stem(suffix) == SubSeq(s, 1, Len(s) - Len(suffix))
        dotted == StrReplace(s, <<"g", " ", ".">>, <<>>)
        kg == <<"k", "g">>
        g == <<"g">>
        ml == <<"m", "l">>
        oz == <<"o", "z">>
    IN  IF Contains(s, <<"x">>)
        THEN IF Len(factors) >= 2 /\ IsNumber(factors[1]) /\ IsNumber(factors[2])
             THEN FloatDiv1000(FloatMul(ParseFloat(factors[1]), ParseFloat(factors[2])))
             ELSE Str(s)
        ELSE IF EndsWith(s, <<".">>) /\ IsNumber(dotted) THEN FloatDiv1000(ParseFloat(dotted))
        ELSE IF EndsWith(s, kg) /\ IsNumber(stem(kg)) THEN ParseFloat(stem(kg))
        ELSE IF EndsWith(s, g) /\ IsNumber(stem(g)) THEN FloatDiv1000(ParseFloat(stem(g)))
        ELSE IF EndsWith(s, ml) /\ IsNumber(stem(ml)) THEN FloatDiv1000(ParseFloat(stem(ml)))
        ELSE IF EndsWith(s, oz) /\ IsNumber(stem(oz)) THEN FloatMul(ParseFloat(stem(oz)), OzInKg)
        ELSE Str(s)

\* C8: convert_product_weights never raises and returns what the seven
\* rules give, first match winning: the weight in kilograms for a
\* well-formed multipack, stray-period, kg, g, ml or oz text, and the text
\* unchanged for every other input.
C8_SevenRules ==
    /\ pc # "raised"
    /\ pc = "done" => df = SevenRules(inp)

(***************************************************************************)
(* Specification SpecUsers: the users recipe clean_user_data, one action   *)
(* per pass, on every dataset of at most MaxUserRows rows drawn from       *)
(* UserRows.                                                               *)
(***************************************************************************)

MaxUserRows == 2

UserColumns == {"first_name", "email_address", "address", "country_code",
                "phone_number", "user_uuid", "date_of_birth", "join_date"}

\* column_data_types of clean_user_data
UserColumnDataTypes ==
    << <<"first_name", "string">>, <<"last_name", "string">>, <<"company", "string">>,
       <<"email_address", "string">>, <<"address", "string">>,
       <<"country", "category">>, <<"country_code", "category">>,
       <<"phone_number", "string">>, <<"user_uuid", "string">> >>

UserUniqueColumns == <<"email_address", "phone_number", "user_uuid">>

UserDateColumns == <<"date_of_birth", "join_date">>

UserEmails == {<<"a", "@", "b">>, <<"a", "@", "@", "b">>}

UserPhones == {<<"1">>, <<" ", "1">>}

UserUuids == {<<"u">>, <<"v">>}

UserCountryCodes == {GB, GGB, FR}

UserBirthDates == {<<"2", "0", "0", "0", "-", "0", "2", "-", "2", "9">>, <<"x">>}

UserRows ==
    {[first_name |-> Str(fn), email_address |-> Str(em),
      address |-> Str(<<"1", " ", "a", "\n", "b", "c", " ", "d", "1">>),
      country_code |-> Str(cc), phone_number |-> Str(ph), user_uuid |-> Str(id),
      date_of_birth |-> Str(dob),
      join_date |-> Str(<<"2", "0", "2", "0", " ", "M", "a", "y", " ", "1">>)] :
        fn \in {<<"A">>, NULL}, em \in UserEmails, cc \in UserCountryCodes,
        ph \in UserPhones, id \in UserUuids, dob \in UserBirthDates}

InitUsers ==
    /\ pc = "convert_data_types"
    /\ \E n \in 0..MaxUserRows : \E cs \in [1..n -> UserRows] :
          inp = [dtypes |-> [c \in UserColumns |-> "object"],
                 rows |-> [k \in 1..n |-> [index |-> k, cells |-> cs[k]]]]
    /\ df = inp
    /\ arg = <<>>
    /\ exc = "none"

UsersConvertDataTypes ==
    /\ pc = "convert_data_types"
    /\ Returns(ConvertDataTypes(df, UserColumnDataTypes), "remove_null_values")
    /\ UNCHANGED <<inp, arg>>

UsersRemoveNullValues ==
    /\ pc = "remove_null_values"
    /\ Returns(RemoveNullValues(df), "remove_unique_column_duplicates")
    /\ UNCHANGED <<inp, arg>>

UsersRemoveDuplicates ==
    /\ pc = "remove_unique_column_duplicates"
    /\ Returns(RemoveUniqueColumnDuplicates(df, UserUniqueColumns), "clean_country_data")
    /\ UNCHANGED <<inp, arg>>

UsersCleanCountryData ==
    /\ pc = "clean_country_data"
    /\ Returns(CleanCountryData(df, DefaultValidCountryCodes), "clean_email_addresses")
    /\ UNCHANGED <<inp, arg>>

UsersCleanEmailAddresses ==
    /\ pc = "clean_email_addresses"
    /\ Returns(CleanEmailAddresses(df), "convert_dates")
    /\ UNCHANGED <<inp, arg>>

UsersConvertDates ==
    /\ pc = "convert_dates"
    /\ Returns(ConvertDates(df, UserDateColumns), "clean_addresses")
    /\ UNCHANGED <<inp, arg>>

UsersCleanAddresses ==
    /\ pc = "clean_addresses"
    /\ Returns(CleanAddresses(df), "clean_phone_numbers")
    /\ UNCHANGED <<inp, arg>>

UsersCleanPhoneNumbers ==
    /\ pc = "clean_phone_numbers"
    /\ Returns(CleanPhoneNumbers(df), "done")
    /\ UNCHANGED <<inp, arg>>

NextUsers ==
    \/ UsersConvertDataTypes
    \/ UsersRemoveNullValues
    \/ UsersRemoveDuplicates
    \/ UsersCleanCountryData
    \/ UsersCleanEmailAddresses
    \/ UsersConvertDates
    \/ UsersCleanAddresses
    \/ UsersCleanPhoneNumbers

SpecUsers == InitUsers /\ [][NextUsers]_vars

\* no value occurs in two rows of column col
UniqueIn(d, col) ==
    \A k1, k2 \in 1..Len(d.rows) :
        k1 # k2 => d.rows[k1].cells[col] # d.rows[k2].cells[col]

\* C2: in the dataset clean_user_data returns, email_address, phone_number
\* and user_uuid each hold pairwise distinct values.
C2_UsersUnique ==
    pc = "done" =>
        /\ UniqueIn(df, "email_address")
        /\ UniqueIn(df, "phone_number")
        /\ UniqueIn(df, "user_uuid")

(***************************************************************************)
(* Specification SpecCards: the cards recipe clean_card_data, one action   *)
(* per statement, on every dataset of at most MaxCardRows rows whose card  *)
(* numbers are texts of one to MaxCardLen characters over CardAlphabet.    *)
(***************************************************************************)

MaxCardRows == 2

MaxCardLen == 2

CardAlphabet == {"1", "2", "?", "a", "-"}

CardColumns == {"card_number", "card_provider", "date_payment_confirmed"}

CardRows ==
    {[card_number |-> Str(n), card_provider |-> p, date_payment_confirmed |-> Str(dt)] :
        n \in TextsUpTo(CardAlphabet, MaxCardLen) \ {<<>>},
        p \in {Str(<<"V">>), None},
        dt \in {<<"2", "0", "1", "5", "-", "1", "1", "-", "2", "5">>, <<"x">>}}

InitCards ==
    /\ pc = "drop_duplicates"
    /\ \E n \in 0..MaxCardRows : \E cs \in [1..n -> CardRows] :
          inp = [dtypes |-> [c \in CardColumns |-> "object"],
                 rows |-> [k \in 1..n |-> [index |-> k, cells |-> cs[k]]]]
    /\ df = inp
    /\ arg = <<>>
    /\ exc = "none"

CardsDropDuplicates ==
    /\ pc = "drop_duplicates"
    /\ Returns(DropFullDuplicates(df), "strip_question_marks")
    /\ UNCHANGED <<inp, arg>>

CardsStripQuestionMarks ==
    /\ pc = "strip_question_marks"
    /\ Returns(StrReplaceColumn(df, "card_number", <<"?">>, <<>>), "drop_letters")
    /\ UNCHANGED <<inp, arg>>

CardsDropLetters ==
    /\ pc = "drop_letters"
    /\ Returns(DropLetterCards(df), "parse_dates")
    /\ UNCHANGED <<inp, arg>>

CardsParseDates ==
    /\ pc = "parse_dates"
    /\ Returns(ApplyParseDate(df, "date_payment_confirmed"), "dropna")
    /\ UNCHANGED <<inp, arg>>

CardsDropNa ==
    /\ pc = "dropna"
    /\ Returns(DropNa(df), "astype_int")
    /\ UNCHANGED <<inp, arg>>

CardsToInt ==
    /\ pc = "astype_int"
    /\ Returns(CardNumberToInt(df), "done")
    /\ UNCHANGED <<inp, arg>>

NextCards ==
    \/ CardsDropDuplicates
    \/ CardsStripQuestionMarks
    \/ CardsDropLetters
    \/ CardsParseDates
    \/ CardsDropNa
    \/ CardsToInt

SpecCards == InitCards /\ [][NextCards]_vars

\* C5: the dataset clean_card_data returns holds no two rows that are equal
\* in every column.
C5_NoDuplicateRows ==
    pc = "done" =>
        \A k1, k2 \in 1..Len(df.rows) :
            k1 # k2 => df.rows[k1].cells # df.rows[k2].cells

\* the digits of a text, in order
DigitsOf(s) == SelectSeq(s, LAMBDA ch : ch \in Digits)

\* a row of the input whose card number is made of digits and '?' (one
\* digit at least) and whose other cells are valid
GoodCardRow(r) ==
    /\ IsStr(r.cells["card_number"])
    /\ \A k \in 1..Len(r.cells["card_number"].s) :
          r.cells["card_number"].s[k] \in Digits \cup {"?"}
    /\ DigitsOf(r.cells["card_number"].s) # <<>>
    /\ ~IsNa(r.cells["card_provider"])
    /\ ~IsRaised(DateutilParse(r.cells["date_payment_confirmed"]))

HasLetter(c) == IsStr(c) /\ \E k \in 1..Len(c.s) : c.s[k] \in Letters

\* C6: clean_card_data keeps every row whose card number is made of digits
\* and '?' and whose other cells are valid, with the integer its digits
\* form as card number; it drops every row whose card number holds a
\* letter; every card number it returns is an integer.
C6_CardNumbers ==
    pc \in {"done", "raised"} =>
        /\ \A k \in 1..Len(inp.rows) :
              GoodCardRow(inp.rows[k]) =>
                  /\ pc = "done"
                  /\ \E j \in 1..Len(df.rows) :
                        /\ df.rows[j].index = inp.rows[k].index
                        /\ df.rows[j].cells["card_number"]
                              = IntCell(DecVal(DigitsOf(inp.rows[k].cells["card_number"].s)))
        /\ pc = "done" =>
              /\ \A j \in 1..Len(df.rows) : IsInt(df.rows[j].cells["card_number"])
              /\ \A k \in 1..Len(inp.rows) :
                    HasLetter(inp.rows[k].cells["card_number"])
                        => inp.rows[k].index \notin Indexes(df)

(***************************************************************************)
(* Specification SpecStores: the stores recipe clean_store_data, one       *)
(* action per statement, on every dataset of at most MaxStoreRows rows.    *)
(***************************************************************************)

MaxStoreRows == 2

StoreColumns ==
    {"lat", "country_code", "address", "continent", "staff_numbers",
     "longitude", "latitude", "opening_date"}

StoreRows ==
    {[lat |-> None, country_code |-> Str(cc),
      address |-> Str(<<"1", "\n", "A">>), continent |-> Str(<<"e", "e", "E", "u">>),
      staff_numbers |-> Str(st), longitude |-> lo, latitude |-> la,
      opening_date |-> Str(dt)] :
        cc \in {GB, FR},
        st \in {<<"3">>, <<"J", "7">>},
        lo \in {Str(<<"1", ".", "5">>), Str(NA), None},
        la \in {Str(<<"2", ".", "5">>), Str(NA), None},
        dt \in {<<"2", "0", "1", "5", "-", "1", "1", "-", "2", "5">>, <<"x">>}}

InitStores ==
    /\ pc = "drop_lat"
    /\ \E n \in 0..MaxStoreRows : \E cs \in [1..n -> StoreRows] :
          inp = [dtypes |-> [c \in StoreColumns |-> "object"],
                 rows |-> [k \in 1..n |-> [index |-> k, cells |-> cs[k]]]]
    /\ df = inp
    /\ arg = <<>>
    /\ exc = "none"

StoresDropLat ==
    /\ pc = "drop_lat"
    /\ Returns(DropColumn(df, "lat"), "clean_country_data")
    /\ UNCHANGED <<inp, arg>>

StoresCleanCountryData ==
    /\ pc = "clean_country_data"
    /\ Returns(CleanCountryData(df, DefaultValidCountryCodes), "address")
    /\ UNCHANGED <<inp, arg>>

StoresAddress ==
    /\ pc = "address"
    /\ Returns(StrReplaceColumn(df, "address", <<"\n">>, <<",", " ">>), "continent")
    /\ UNCHANGED <<inp, arg>>

StoresContinent ==
    /\ pc = "continent"
    /\ Returns(StrReplaceColumn(df, "continent", <<"e", "e">>, <<>>), "staff_numbers")
    /\ UNCHANGED <<inp, arg>>

StoresStaffNumbers ==
    /\ pc = "staff_numbers"
    /\ Returns(StripStaffLetters(df), "longitude")
    /\ UNCHANGED <<inp, arg>>

StoresLongitude ==
    /\ pc = "longitude"
    /\ Returns(StrReplaceColumn(df, "longitude", NA, NaN), "opening_date")
    /\ UNCHANGED <<inp, arg>>

StoresOpeningDate ==
    /\ pc = "opening_date"
    /\ Returns(ApplyParseDate(df, "opening_date"), "convert_data_types")
    /\ UNCHANGED <<inp, arg>>

StoresConvertDataTypes ==
    /\ pc = "convert_data_types"
    /\ Returns(ConvertDataTypes(df, StoreColumnDataTypes), "done")
    /\ UNCHANGED <<inp, arg>>

NextStores ==
    \/ StoresDropLat
    \/ StoresCleanCountryData
    \/ StoresAddress
    \/ StoresContinent
    \/ StoresStaffNumbers
    \/ StoresLongitude
    \/ StoresOpeningDate
    \/ StoresConvertDataTypes

SpecStores == InitStores /\ [][NextStores]_vars

\* C7: in the dataset clean_store_data returns, no longitude and no
\* latitude is the text "N/A": each is a float or the missing value.
C7_NoTextCoordinates ==
    pc = "done" =>
        \A k \in 1..Len(df.rows) : \A c \in {"longitude", "latitude"} :
            /\ df.rows[k].cells[c] # Str(NA)
            /\ IsFloat(df.rows[k].cells[c]) \/ IsNa(df.rows[k].cells[c])

(***************************************************************************)
(* Specification SpecCountry: clean_country_data on every dataset of at    *)
(* most MaxCountryRows rows, with the default list of valid codes or       *)
(* another one.  The index labels come from the 'index' column of the      *)
(* source table (set_index('index')), which may repeat a label.            *)
(***************************************************************************)

CountryRows ==
    {[index |-> i, cells |-> [country_code |-> c, store_type |-> t]] :
        i \in 1..MaxCountryRows, c \in CountryCells,
        t \in {Str(<<"L">>), None}}

InitCountry ==
    /\ pc = "country"
    /\ \E n \in 0..MaxCountryRows : \E rs \in [1..n -> CountryRows] :
          inp = [dtypes |-> [c \in {"country_code", "store_type"} |-> "object"],
                 rows |-> rs]
    /\ arg \in CountryCodeLists
    /\ df = inp
    /\ exc = "none"

CleanCountry ==
    /\ pc = "country"
    /\ Returns(CleanCountryData(df, arg), "done")
    /\ UNCHANGED <<inp, arg>>

NextCountry == CleanCountry

SpecCountry == InitCountry /\ [][NextCountry]_vars

\* the input row with 'GGB' corrected to 'GB'
Corrected(r) ==
    [r EXCEPT !.cells["country_code"] = ReplaceGGB(IF IsNone(@) THEN Null ELSE @)]

ValidCode(r) ==
    /\ IsStr(r.cells["country_code"])
    /\ r.cells["country_code"].s \in arg

\* C11: after clean_country_data every country_code is in the list of valid
\* codes, a row whose input code is 'GGB' is kept with code 'GB' ('GB' being
\* a valid code, as in the default list), the rows kept are exactly the rows
\* whose corrected code is valid, and every other column of a kept row is
\* unchanged.
C11_CountryValidator ==
    pc # "country" =>
        /\ pc = "done"
        /\ \A j \in 1..Len(df.rows) : ValidCode(df.rows[j])
        /\ \A k \in 1..Len(inp.rows) :
              (inp.rows[k].cells["country_code"] = Str(GGB) /\ GB \in arg) =>
                  \E j \in 1..Len(df.rows) :
                      df.rows[j] = [inp.rows[k] EXCEPT !.cells["country_code"] = Str(GB)]
        /\ df.rows = SelectSeq([k \in 1..Len(inp.rows) |-> Corrected(inp.rows[k])],
                               ValidCode)

(***************************************************************************)
(* Specification SpecDates: convert_dates on one date column, one action   *)
(* per statement of the loop body, on every column of at most MaxDateRows  *)
(* cells drawn from DateCells.                                             *)
(***************************************************************************)

MaxDateRows == 3

DateCells ==
    {Str(<<"2", "0", "2", "0", "-", "0", "1", "-", "1", "5">>),
     Str(<<"2", "0", "2", "0", " ">> \o MonthNames[1] \o <<" ", "1", "5">>),
     Str(MonthNames[1] \o <<" ", "2", "0", "2", "0", " ", "1", "5">>),
     Str(<<"n", "o", "t", "-", "a", "-", "d", "a", "t", "e">>),
     None}

InitDates ==
    /\ pc = "%Y-%m-%d"
    /\ \E n \in 0..MaxDateRows : inp \in Datasets({"join_date"}, "object", DateCells, n)
    /\ df = inp
    /\ arg = <<"join_date">>
    /\ exc = "none"

\* the three strict statements, in the order of DateFormats
DatesStrict ==
    /\ \E n \in 1..3 :
          /\ pc = DateFormats[n]
          /\ Returns(IF arg[1] \in Columns(df)
                     THEN ToDatetimeIgnore(df, arg[1], DateFormats[n])
                     ELSE Raised("KeyError"),
                     IF n < 3 THEN DateFormats[n + 1] ELSE "coerce")
    /\ UNCHANGED <<inp, arg>>

DatesCoerce ==
    /\ pc = "coerce"
    /\ Returns(ToDatetimeCoerce(df, arg[1]), "done")
    /\ UNCHANGED <<inp, arg>>

NextDates == DatesStrict \/ DatesCoerce

SpecDates == InitDates /\ [][NextDates]_vars

\* C12: convert_dates never raises; every value written in one of the three
\* fixed formats becomes the date it denotes, also in a column that mixes
\* the formats, and every value no parser accepts becomes a missing date.
C12_ConvertDates ==
    /\ pc # "raised"
    /\ pc = "done" =>
          \A k \in 1..Len(inp.rows) :
              LET c == inp.rows[k].cells["join_date"]
                  out == df.rows[k].cells["join_date"]
              IN  IF IsStr(c) /\ GuessFormat(c.s) # ""
                  THEN out = ParseWithFormat(c.s, GuessFormat(c.s))
                  ELSE IsNull(out)

\* C13: a recipe given a dataset with all its required columns returns a
\* dataset whatever the cell values are; stated for the cards recipe on a
\* dataset of one row at least: clean_card_data never raises.
C13_RecipesReturn == Len(inp.rows) > 0 => pc # "raised"

(***************************************************************************)
(* Specification SpecProducts: the products recipe clean_products_data,    *)
(* one action per statement, on every dataset of at most MaxProductRows    *)
(* rows read from the products file (index labels 1..n).                   *)
(***************************************************************************)

MaxProductRows == 2

ProductColumns == {"Unnamed: 0", "removed", "product_price", "weight", "date_added"}

Deleted == <<"D", "e", "l", "e", "t", "e", "d">>

ProductRows ==
    {[removed |-> Str(rm), product_price |-> Str(pr), weight |-> Str(w),
      date_added |-> Str(dt)] :
        rm \in {StillAvailable, StillAvaliable, Removed, Deleted},
        pr \in {PoundSign \o <<"1", ".", "5">>, PoundSign \o <<"2", ".", "3", "4", "6">>,
                <<"L-", "1", ".", "5">>},
        w \in {<<"2", "k", "g">>, <<"b", "o", "x">>},
        dt \in {<<"2", "0", "1", "5", "-", "1", "1", "-", "2", "5">>, <<"x">>}}

InitProducts ==
    /\ pc = "rename_index"
    /\ \E n \in 0..MaxProductRows : \E cs \in [1..n -> ProductRows] :
          inp = [dtypes |-> [c \in ProductColumns |-> "object"],
                 rows |-> [k \in 1..n |->
                    [index |-> k,
                     cells |-> [c \in ProductColumns |->
                                  IF c = "Unnamed: 0" THEN IntCell(k - 1) ELSE cs[k][c]]]]]
    /\ df = inp
    /\ arg = <<>>
    /\ exc = "none"

ProductsRenameIndex ==
    /\ pc = "rename_index"
    /\ Returns(RenameColumn(df, "Unnamed: 0", "index"), "correct_spelling")
    /\ UNCHANGED <<inp, arg>>

ProductsCorrectSpelling ==
    /\ pc = "correct_spelling"
    /\ Returns(CorrectSpelling(df), "drop_invalid")
    /\ UNCHANGED <<inp, arg>>

ProductsDropInvalid ==
    /\ pc = "drop_invalid"
    /\ Returns(DropInvalidRemoved(df), "product_price")
    /\ UNCHANGED <<inp, arg>>

ProductsPrice ==
    /\ pc = "product_price"
    /\ Returns(StrReplaceColumn(df, "product_price", PoundSign, <<>>), "weight")
    /\ UNCHANGED <<inp, arg>>

ProductsWeight ==
    /\ pc = "weight"
    /\ Returns(ApplyConvertProductWeights(df), "rename_weight")
    /\ UNCHANGED <<inp, arg>>

ProductsRenameWeight ==
    /\ pc = "rename_weight"
    /\ Returns(RenameColumn(df, "weight", "weight_in_kg"), "date_added")
    /\ UNCHANGED <<inp, arg>>

ProductsDateAdded ==
    /\ pc = "date_added"
    /\ Returns(ApplyParseDate(df, "date_added"), "convert_data_types")
    /\ UNCHANGED <<inp, arg>>

ProductsConvertDataTypes ==
    /\ pc = "convert_data_types"
    /\ Returns(ConvertDataTypes(df, ProductColumnDataTypes), "round")
    /\ UNCHANGED <<inp, arg>>

ProductsRound ==
    /\ pc = "round"
    /\ Returns(RoundPrice(df), "done")
    /\ UNCHANGED <<inp, arg>>

NextProducts ==
    \/ ProductsRenameIndex
    \/ ProductsCorrectSpelling
    \/ ProductsDropInvalid
    \/ ProductsPrice
    \/ ProductsWeight
    \/ ProductsRenameWeight
    \/ ProductsDateAdded
    \/ ProductsConvertDataTypes
    \/ ProductsRound

SpecProducts == InitProducts /\ [][NextProducts]_vars

\* the row of the returned dataset with the index label of input row k
Survives(k) == inp.rows[k].index \in Indexes(df)

\* C14: clean_products_data keeps a row if and only if its removed status is
\* 'Still_available', 'Removed' or 'Still_avaliable'; a misspelled row that
\* is kept carries 'Still_available'; every row returned has removed in
\* {Still_available, Removed}.
C14_RemovedStatus ==
    pc \in {"done", "raised"} =>
        /\ \A k \in 1..Len(inp.rows) :
              (pc = "done" /\ Survives(k))
                  <=> inp.rows[k].cells["removed"].s \in {StillAvailable, Removed, StillAvaliable}
        /\ pc = "done" =>
              /\ \A j \in 1..Len(df.rows) : df.rows[j].cells["removed"].s \in valid_removed
              /\ \A k \in 1..Len(inp.rows) : \A j \in 1..Len(df.rows) :
                    (/\ df.rows[j].index = inp.rows[k].index
                     /\ inp.rows[k].cells["removed"] = Str(StillAvaliable))
                        => df.rows[j].cells["removed"] = Str(StillAvailable)

(***************************************************************************)
(* Specification SpecNulls: remove_null_values on every dataset of at most *)
(* MaxNullRows rows and two columns, the index labels in any order and     *)
(* possibly repeated.                                                      *)
(***************************************************************************)

MaxNullRows == 2

NullCells == {Str(NULL), Str(<<"N", "u", "l", "l">>), Str(<<"a">>), None}

NullRows ==
    {[index |-> i, cells |-> [first_name |-> a, last_name |-> b]] :
        i \in 1..MaxNullRows, a \in NullCells, b \in NullCells}

InitNulls ==
    /\ pc = "null"
    /\ \E n \in 0..MaxNullRows : \E rs \in [1..n -> NullRows] :
          inp = [dtypes |-> [c \in {"first_name", "last_name"} |-> "object"], rows |-> rs]
    /\ df = inp
    /\ arg = <<>>
    /\ exc = "none"

RemoveNulls ==
    /\ pc = "null"
    /\ Returns(RemoveNullValues(df), "done")
    /\ UNCHANGED <<inp, arg>>

NextNulls == RemoveNulls

SpecNulls == InitNulls /\ [][NextNulls]_vars

HasSentinel(r) == \E c \in DOMAIN r.cells : r.cells[c] = Str(NULL)

\* a is b with some of its elements left out
RECURSIVE IsSubsequence(_, _)
IsSubsequence(a, b) ==
    IF Len(a) = 0 THEN TRUE
    ELSE IF Len(b) = 0 THEN FALSE
    ELSE IF Head(a) = Head(b) THEN IsSubsequence(Tail(a), Tail(b))
    ELSE IsSubsequence(a, Tail(b))

\* C15: remove_null_values never raises; no cell of what it returns is the
\* sentinel "NULL"; the rows it returns are rows of the input, in the order
\* of the input; no row free of the sentinel is dropped.
C15_RemoveNullValues ==
    pc # "null" =>
        /\ pc = "done"
        /\ \A j \in 1..Len(df.rows) : ~HasSentinel(df.rows[j])
        /\ IsSubsequence(df.rows, inp.rows)
        /\ Len(df.rows) = Cardinality({k \in 1..Len(inp.rows) : ~HasSentinel(inp.rows[k])})
        /\ df.dtypes = inp.dtypes

\* a dataset with a row that holds the sentinel and a row that does not has
\* been filtered
C15_Witness ==
    /\ pc = "done"
    /\ \E k \in 1..Len(inp.rows) : HasSentinel(inp.rows[k])
    /\ Len(df.rows) > 0
    /\ Len(df.rows) < Len(inp.rows)

(***************************************************************************)
(* Specification SpecAddresses: clean_addresses, one action per statement, *)
(* on every dataset of at most MaxAddressRows rows whose address is a text *)
(* of at most MaxAddressTokens pieces of AddressTokens, or missing.        *)
(***************************************************************************)

MaxAddressRows == 1

MaxAddressTokens == 3

AddressTokens == {<<"a", "b">>, <<"c", "1">>, <<" ">>, <<"\n">>}

AddressCells == {Str(t) : t \in TokenTexts(AddressTokens, MaxAddressTokens)} \cup {None}

InitAddresses ==
    /\ pc = "newlines"
    /\ \E n \in 0..MaxAddressRows : inp \in Datasets({"address"}, "object", AddressCells, n)
    /\ df = inp
    /\ arg = <<>>
    /\ exc = "none"

AddressesNewlines ==
    /\ pc = "newlines"
    /\ Returns(StrReplaceColumn(df, "address", <<"\n">>, <<" ">>), "title")
    /\ UNCHANGED <<inp, arg>>

AddressesTitle ==
    /\ pc = "title"
    /\ Returns(TitleColumn(df), "upper_last_two")
    /\ UNCHANGED <<inp, arg>>

AddressesUpperLastTwo ==
    /\ pc = "upper_last_two"
    /\ Returns(UpperLastTwoColumn(df), "done")
    /\ UNCHANGED <<inp, arg>>

NextAddresses == AddressesNewlines \/ AddressesTitle \/ AddressesUpperLastTwo

SpecAddresses == InitAddresses /\ [][NextAddresses]_vars

\* C16: on an address of fewer than two words clean_addresses does not raise
\* and leaves the words as the first two statements made them: newlines
\* replaced, title case, not upper case.
C16_ShortAddress ==
    \A k \in 1..Len(inp.rows) :
        LET c == inp.rows[k].cells["address"]
        IN  (IsStr(c) /\ Len(Words(c.s)) < 2) =>
                /\ pc # "raised"
                /\ pc = "done" =>
                      /\ IsStr(df.rows[k].cells["address"])
                      /\ Words(df.rows[k].cells["address"].s)
                            = Words(Title(StrReplace(c.s, <<"\n">>, <<" ">>)))

(***************************************************************************)
(* Specification SpecOrders: the orders part of the ETL script.  df is the *)
(* heap, a record from object names to datasets; the script's variables    *)
(* orders_data_df and cleaned_orders_data_df, kept in arg, each hold the   *)
(* name of an object, "None", or "unset" before their assignment.  inp is  *)
(* the content of the table orders_table, and arg.upload what the upload   *)
(* was called with.                                                        *)
(***************************************************************************)

MaxOrderRows == 2

\* the dataset d without the columns columns
WithoutColumns(d, columns) ==
    [dtypes |-> [c \in Columns(d) \ columns |-> d.dtypes[c]],
     rows |-> [k \in 1..Len(d.rows) |->
                 [d.rows[k] EXCEPT !.cells =
                     [c \in Columns(d) \ columns |-> d.rows[k].cells[c]]]]]

\* a drop that leaves the object ref alone and builds a new object
DropColumnsOnCopy(heap, ref, columns) ==
    IF ref = "None" THEN Raised("AttributeError")
    ELSE IF ~(columns \subseteq Columns(heap[ref])) THEN Raised("KeyError")
    ELSE [o \in {"o1", "o2"} |->
            IF o = "o2" THEN WithoutColumns(heap[ref], columns) ELSE heap[ref]]

\* df.drop(columns=columns, inplace=True) on the object ref: KeyError, and no
\* change, when a column is absent; AttributeError on None
DropColumnsInPlace(heap, ref, columns) ==
    IF ref = "None" THEN Raised("AttributeError")
    ELSE IF ~(columns \subseteq Columns(heap[ref])) THEN Raised("KeyError")
    ELSE [heap EXCEPT ![ref] = WithoutColumns(heap[ref], columns)]

\* df.rename(columns={old: new}, inplace=True) on the object ref
RenameColumnInPlace(heap, ref, old, new) ==
    [heap EXCEPT ![ref] = RenameColumn(heap[ref], old, new)]

OrderDropColumns == {"first_name", "last_name", "1"}

OrderTableColumns ==
    {{"level_0", "first_name", "last_name", "1", "user_uuid"},
     {"first_name", "last_name", "1", "user_uuid"},
     {"level_0", "first_name", "last_name", "user_uuid"}}

OrderTables ==
    UNION {{[dtypes |-> [c \in cols |-> "object"],
             rows |-> [k \in 1..n |->
                [index |-> k,
                 cells |-> [c \in cols |->
                    IF c = "first_name" THEN fn[k]
                    ELSE IF c = "user_uuid" THEN id[k]
                    ELSE IF c = "level_0" THEN IntCell(k)
                    ELSE None]]]] :
              fn \in [1..n -> {Str(<<"a">>), Str(<<"b">>)}],
              id \in [1..n -> {Str(<<"u">>), Str(<<"v">>)}]} :
           cols \in OrderTableColumns, n \in 0..MaxOrderRows}

InitOrders ==
    /\ pc = "read_rds_table"
    /\ inp \in OrderTables
    /\ df = [o1 |-> inp]
    /\ arg = [orders_data_df |-> "unset", cleaned_orders_data_df |-> "unset", upload |-> <<>>]
    /\ exc = "none"

\* orders_data_df = extractor.read_rds_table('orders_table')
OrdersRead ==
    /\ pc = "read_rds_table"
    /\ pc' = "drop"
    /\ arg' = [arg EXCEPT !.orders_data_df = "o1"]
    /\ UNCHANGED <<inp, df, exc>>

\* the same call when reading fails: the exception is caught, None returned
OrdersReadFails ==
    /\ pc = "read_rds_table"
    /\ pc' = "drop"
    /\ arg' = [arg EXCEPT !.orders_data_df = "None"]
    /\ UNCHANGED <<inp, df, exc>>

OrdersDrop ==
    /\ pc = "drop"
    /\ Returns(DropColumnsInPlace(df, arg.orders_data_df, OrderDropColumns), "rename")
    /\ UNCHANGED <<inp, arg>>

OrdersRename ==
    /\ pc = "rename"
    /\ Returns(RenameColumnInPlace(df, arg.orders_data_df, "level_0", "index"), "return")
    /\ UNCHANGED <<inp, arg>>

\* return df, assigned to cleaned_orders_data_df: the object it was given
OrdersReturn ==
    /\ pc = "return"
    /\ pc' = "upload_to_db"
    /\ arg' = [arg EXCEPT !.cleaned_orders_data_df = arg.orders_data_df]
    /\ UNCHANGED <<inp, df, exc>>

\* db_connector.upload_to_db(orders_data_df, table_name='orders_table')
OrdersUpload ==
    /\ pc = "upload_to_db"
    /\ pc' = "done"
    /\ arg' = [arg EXCEPT !.upload = [df |-> df[arg.orders_data_df],
                                      table_name |-> "orders_table"]]
    /\ UNCHANGED <<inp, df, exc>>

NextOrders ==
    \/ OrdersRead
    \/ OrdersReadFails
    \/ OrdersDrop
    \/ OrdersRename
    \/ OrdersReturn
    \/ OrdersUpload

SpecOrders == InitOrders /\ [][NextOrders]_vars

\* the column of the fetched table that column c of the upload comes from
FetchedName(c) == IF c = "index" THEN "level_0" ELSE c

\* C17: what the upload for 'orders_table' is called with is the cleaned
\* orders dataset: clean_orders_data has returned, the columns first_name,
\* last_name and '1' are gone, and the rows are those of the fetched table.
C17_UploadsCleanedOrders ==
    arg.upload # <<>> =>
        /\ arg.upload.table_name = "orders_table"
        /\ arg.cleaned_orders_data_df # "unset"
        /\ arg.upload.df = df[arg.cleaned_orders_data_df]
        /\ Columns(arg.upload.df) \cap OrderDropColumns = {}
        /\ {FetchedName(c) : c \in Columns(arg.upload.df)} = Columns(inp) \ OrderDropColumns
        /\ Len(arg.upload.df.rows) = Len(inp.rows)
        /\ \A k \in 1..Len(inp.rows) :
              /\ arg.upload.df.rows[k].index = inp.rows[k].index
              /\ \A c \in Columns(arg.upload.df) :
                    arg.upload.df.rows[k].cells[c] = inp.rows[k].cells[FetchedName(c)]

\* a fetched table with rows and the three columns has been uploaded
C17_Witness ==
    /\ pc = "done"
    /\ arg.upload # <<>>
    /\ Len(inp.rows) > 0
    /\ "level_0" \in Columns(inp)
    /\ "index" \in Columns(arg.upload.df)

====
